---- MODULE Spec2Model ----
(***************************************************************************)
(* KeyCLSound Generator (src/src/keyclsound-generator.pyw).                *)
(*                                                                         *)
(* A text is a sequence of one-character strings, so that strip, endswith, *)
(* split, join and the f-string layout are computed character by           *)
(* character.  The state is the contents of the entry widgets, the repo    *)
(* browser (current_path, the listing bound to the listbox, its rows), the *)
(* working directory's files and what the last handler showed the user.    *)
(***************************************************************************)
EXTENDS Integers, Sequences, FiniteSets

VARIABLES
    title_entry,        \* text of the Title entry
    author_entry,       \* text of the Author entry
    desc_entry,         \* text of the Description entry
    tags_entry,         \* text of the Tags entry
    manual_url_entry,   \* text of the manual URL entry
    selected_url,       \* the StringVar selected_url
    current_path,       \* the global current_path
    items,              \* the listing bound to <<ListboxSelect>> by load_repo
    files_listbox,      \* the rows of the listbox, top to bottom
    files,              \* working directory: filename -> content
    outcome,            \* what the last handler surfaced (dialog or traceback)
    nSaveCalls,         \* history: calls of save_keyclsound so far
    last                \* history: the last handler run and its inputs

vars == <<title_entry, author_entry, desc_entry, tags_entry, manual_url_entry,
          selected_url, current_path, items, files_listbox, files, outcome,
          nSaveCalls, last>>

formVars == <<title_entry, author_entry, desc_entry, tags_entry>>
browserVars == <<current_path, items, files_listbox>>

----------------------------------------------------------------------------
(* Bounds of the model.                                                    *)

\* Calls of save_keyclsound explored in one run of the program.
MaxGenerations == 2

\* How many temporary files preview_sound leaves in the working directory
\* (NamedTemporaryFile(delete=False): every preview made there adds one).
MaxTempFiles == 1

----------------------------------------------------------------------------
(* Python's str operations, on sequences of characters.                    *)

\* The characters str.strip() removes: those for which str.isspace() holds.
\* A character without an escape in a TLA+ string is written as its code
\* point: "<U+00A0>" is the no-break space, one character.
Whitespace ==
    { "\t", "\n", "<U+000B>", "\f", "\r", "<U+001C>", "<U+001D>", "<U+001E>",
      "<U+001F>", " ", "<U+0085>", "<U+00A0>", "<U+1680>", "<U+2000>",
      "<U+2001>", "<U+2002>", "<U+2003>", "<U+2004>", "<U+2005>", "<U+2006>",
      "<U+2007>", "<U+2008>", "<U+2009>", "<U+200A>", "<U+2028>", "<U+2029>",
      "<U+202F>", "<U+205F>", "<U+3000>" }

RECURSIVE lstrip(_)
lstrip(s) ==
    IF s = <<>> THEN s
    ELSE IF Head(s) \in Whitespace THEN lstrip(Tail(s)) ELSE s

RECURSIVE rstrip(_)
rstrip(s) ==
    IF s = <<>> THEN s
    ELSE IF s[Len(s)] \in Whitespace THEN rstrip(SubSeq(s, 1, Len(s) - 1)) ELSE s

\* str.strip()
strip(s) == rstrip(lstrip(s))

\* str.endswith(suffix)
endswith(s, suffix) ==
    /\ Len(suffix) <= Len(s)
    /\ SubSeq(s, Len(s) - Len(suffix) + 1, Len(s)) = suffix

\* The tuple (".mp3", ".wav", ".ogg") of lines 109, 135, 150.
AUDIO_SUFFIXES ==
    { <<".", "m", "p", "3">>, <<".", "w", "a", "v">>, <<".", "o", "g", "g">> }

\* str.endswith((".mp3", ".wav", ".ogg"))
endswith_audio(s) == \E suffix \in AUDIO_SUFFIXES : endswith(s, suffix)

\* str.split(sep) for a one-character separator: the segments between the
\* separators, empty ones kept.
RECURSIVE split(_, _)
split(s, sep) ==
    IF \A i \in 1..Len(s) : s[i] # sep THEN <<s>>
    ELSE LET i == CHOOSE k \in 1..Len(s) :
                      s[k] = sep /\ \A j \in 1..(k - 1) : s[j] # sep
         IN  <<SubSeq(s, 1, i - 1)>> \o split(SubSeq(s, i + 1, Len(s)), sep)

\* sep.join(parts)
RECURSIVE join(_, _)
join(parts, sep) ==
    IF parts = <<>> THEN <<>>
    ELSE IF Len(parts) = 1 THEN parts[1]
    ELSE parts[1] \o <<sep>> \o join(Tail(parts), sep)

\* format of an int by an f-string: its decimal digits, most significant first.
DIGITS == <<"0", "1", "2", "3", "4", "5", "6", "7", "8", "9">>

RECURSIVE str_int(_)
str_int(n) ==
    IF n < 10 THEN <<DIGITS[n + 1]>>
    ELSE str_int(n \div 10) \o <<DIGITS[(n % 10) + 1]>>

----------------------------------------------------------------------------
(* Helper functions of the program.                                        *)

KEYCLSOUND_EXT == <<".", "k", "e", "y", "c", "l", "s", "o", "u", "n", "d">>

\* The bounds of random.randint(10000000, 99999999), both inclusive.
RandLo == 10000000
RandHi == 99999999

\* Values random.randint(lo, hi) can return: both ends and the value midway
\* (a sample of lo..hi).
randint(lo, hi) == { lo, (lo + hi) \div 2, hi }

\* The draws were the lower end 1000000.
RandomDraws_7digits == randint(1000000, RandHi)

RandomDraws == randint(RandLo, RandHi)

\* generate_random_filename(), for the value n drawn from random.randint.
generate_random_filename(n) == str_int(n) \o KEYCLSOUND_EXT

\* fetch_repo_contents without the status_code check.
fetch_repo_contents_nostatus(remote, resp) ==
    IF resp # "raised" THEN remote ELSE <<>>

\* fetch_repo_contents(path), for the outcome resp of requests.get(api_url):
\* the parsed JSON body on status 200, [] on any other status and on an
\* exception.  remote is what the listing service holds at api_url.
fetch_repo_contents(remote, resp) ==
    IF resp = "status_200" THEN remote ELSE <<>>

\* The f-string block of generate_file: five "key: value\n" lines, the title
\* defaulted by `or`.
UNTITLED ==
    <<"U", "n", "t", "i", "t", "l", "e", "d", " ", "S", "o", "n", "g">>

K_title == <<"t", "i", "t", "l", "e", ":", " ">>
K_author == <<"a", "u", "t", "h", "o", "r", ":", " ">>
K_description ==
    <<"d", "e", "s", "c", "r", "i", "p", "t", "i", "o", "n", ":", " ">>
K_tags == <<"t", "a", "g", "s", ":", " ">>
K_url == <<"u", "r", "l", ":", " ">>

\* The block with "title:" written without its space.
build_data_nospace(title, author, description, tags, final_url) ==
       <<"t", "i", "t", "l", "e", ":">>
            \o (IF strip(title) # <<>> THEN strip(title) ELSE UNTITLED) \o <<"\n">>
    \o K_author \o strip(author) \o <<"\n">>
    \o K_description \o strip(description) \o <<"\n">>
    \o K_tags \o strip(tags) \o <<"\n">>
    \o K_url \o final_url \o <<"\n">>

\* The block without the `or 'Untitled Song'`.
build_data_rawtitle(title, author, description, tags, final_url) ==
       K_title \o strip(title) \o <<"\n">>
    \o K_author \o strip(author) \o <<"\n">>
    \o K_description \o strip(description) \o <<"\n">>
    \o K_tags \o strip(tags) \o <<"\n">>
    \o K_url \o final_url \o <<"\n">>

\* The block with the tags line before the description line.
build_data_swapped(title, author, description, tags, final_url) ==
       K_title \o (IF strip(title) # <<>> THEN strip(title) ELSE UNTITLED) \o <<"\n">>
    \o K_author \o strip(author) \o <<"\n">>
    \o K_tags \o strip(tags) \o <<"\n">>
    \o K_description \o strip(description) \o <<"\n">>
    \o K_url \o final_url \o <<"\n">>

\* data = f"title: {...}\n" ... f"url: {final_url}\n" (lines 154-160).
build_data(title, author, description, tags, final_url) ==
       K_title \o (IF strip(title) # <<>> THEN strip(title) ELSE UNTITLED) \o <<"\n">>
    \o K_author \o strip(author) \o <<"\n">>
    \o K_description \o strip(description) \o <<"\n">>
    \o K_tags \o strip(tags) \o <<"\n">>
    \o K_url \o final_url \o <<"\n">>

\* The checks without `not author_entry.get().strip()`.
validation_noauthor(author, tags, final_url) ==
    IF strip(tags) = <<>> \/ final_url = <<>> THEN "required"
    ELSE IF ~endswith_audio(final_url) THEN "extension"
    ELSE "ok"

\* The checks without the endswith test.
validation_nosuffix(author, tags, final_url) ==
    IF strip(author) = <<>> \/ strip(tags) = <<>> \/ final_url = <<>>
    THEN "required"
    ELSE "ok"

\* The two checks of generate_file, on the stripped values: "required" when
\* author, tags or url is empty, else "extension" when the url has none of the
\* audio suffixes, else "ok".
validation(author, tags, final_url) ==
    IF strip(author) = <<>> \/ strip(tags) = <<>> \/ final_url = <<>>
    THEN "required"
    ELSE IF ~endswith_audio(final_url) THEN "extension"
    ELSE "ok"

\* UTF-8, the encoding of open(..., encoding="utf-8"): the bytes of the
\* characters of the model that are not ASCII, each byte written as its
\* value, "<C2>".  An ASCII character is one byte, written as the character.
UTF8_TABLE ==
    { <<"<U+0085>", <<"<C2>", "<85>">>>>,
      <<"<U+00A0>", <<"<C2>", "<A0>">>>>,
      <<"<U+00E9>", <<"<C3>", "<A9>">>>>,
      <<"<U+1680>", <<"<E1>", "<9A>", "<80>">>>>,
      <<"<U+2000>", <<"<E2>", "<80>", "<80>">>>>,
      <<"<U+2001>", <<"<E2>", "<80>", "<81>">>>>,
      <<"<U+2002>", <<"<E2>", "<80>", "<82>">>>>,
      <<"<U+2003>", <<"<E2>", "<80>", "<83>">>>>,
      <<"<U+2004>", <<"<E2>", "<80>", "<84>">>>>,
      <<"<U+2005>", <<"<E2>", "<80>", "<85>">>>>,
      <<"<U+2006>", <<"<E2>", "<80>", "<86>">>>>,
      <<"<U+2007>", <<"<E2>", "<80>", "<87>">>>>,
      <<"<U+2008>", <<"<E2>", "<80>", "<88>">>>>,
      <<"<U+2009>", <<"<E2>", "<80>", "<89>">>>>,
      <<"<U+200A>", <<"<E2>", "<80>", "<8A>">>>>,
      <<"<U+2028>", <<"<E2>", "<80>", "<A8>">>>>,
      <<"<U+2029>", <<"<E2>", "<80>", "<A9>">>>>,
      <<"<U+202F>", <<"<E2>", "<80>", "<AF>">>>>,
      <<"<U+205F>", <<"<E2>", "<81>", "<9F>">>>>,
      <<"<U+3000>", <<"<E3>", "<80>", "<80>">>>>,
      <<"<folder>", <<"<F0>", "<9F>", "<93>", "<81>">>>>,
      <<"<note>", <<"<F0>", "<9F>", "<8E>", "<B5>">>>>,
      <<"<page>", <<"<F0>", "<9F>", "<93>", "<84>">>>> }

\* The characters of the table, and the bytes of each.
NON_ASCII == { row[1] : row \in UTF8_TABLE }
UTF8 == [c \in NON_ASCII |-> (CHOOSE row \in UTF8_TABLE : row[1] = c)[2]]

\* The UTF-8 bytes of one character.
utf8_char(c) == IF c \in NON_ASCII THEN UTF8[c] ELSE <<c>>

\* The UTF-8 bytes of a text: what the file holds after a complete write.
RECURSIVE utf8_encode(_)
utf8_encode(text) ==
    IF text = <<>> THEN <<>>
    ELSE IF Len(text) = 1 THEN utf8_char(text[1])
    ELSE LET half == Len(text) \div 2 IN
         utf8_encode(SubSeq(text, 1, half))
             \o utf8_encode(SubSeq(text, half + 1, Len(text)))

\* The first k bytes, all of them when k is their number or more.
written_prefix(bytes, k) ==
    SubSeq(bytes, 1, IF k < Len(bytes) THEN k ELSE Len(bytes))

\* open(filename, "w", encoding="utf-8") followed by f.write(data) and the
\* close: the directory after the call, a file being the sequence of its
\* bytes.  "w" creates the file or truncates the one that is there.  w is
\* what the file system does: "ok", "open_raised" (no file is touched) or
\* "write_raised": the write or the flush at close raised after k bytes had
\* reached the file, which is left holding that prefix of the encoded data
\* (nothing for k = 0, everything when only the close failed); the cut may
\* fall inside a character.
write_file(dir, filename, data, w, k) ==
    IF w = "open_raised" THEN dir
    ELSE [f \in (DOMAIN dir) \cup {filename} |->
             IF f = filename
             THEN (IF w = "ok" THEN utf8_encode(data)
                   ELSE written_prefix(utf8_encode(data), k))
             ELSE dir[f]]

----------------------------------------------------------------------------
(* The collaborators: the listing service and the user's input.            *)

\* What a request can do: answer 200, answer another status, raise (raised
\* stands for every exception of the try block: requests.get failing, or, in
\* fetch_repo_contents, response.json() on a body that does not parse).
FetchResults == {"status_200", "status_other", "raised"}

\* What the file system can do on open(filename, "w") and the write.
WriteResults == {"ok", "open_raised", "write_raised"}

\* How many bytes a failing write of a descriptor lets through: none, some
\* (a file size limit of 8), all (a sample of the counts).
WrittenCounts == {0, 8, 999}

\* The counts that go with an outcome of the file system.
counts_for(w) == IF w = "write_raised" THEN WrittenCounts ELSE {0}

\* preview_sound's download: what r.content holds.
SOUND_BYTES == <<"<byte>">>

\* Where tempfile.gettempdir() points: another directory, or the working
\* directory (TMPDIR set so, or tempfile's last resort).
TempDirs == {"elsewhere", "working_directory"}

\* The names NamedTemporaryFile draws, by number: as many names as temporary
\* files the working directory is let hold.
TempDraws == 1..MaxTempFiles

\* What happens after a 200 in preview_sound: the sound plays, or
\* NamedTemporaryFile raises, or tmpfile.write/close raises, or pygame's
\* load/play raises.
PreviewResults == {"played", "tempfile_raised", "write_raised", "pygame_raised"}

Entry(name, type, path, download_url) ==
    [name |-> name, type |-> type, path |-> path, download_url |-> download_url]

URL_readme == <<"h", "/", "r", ".", "m", "d">>
URL_q == <<"h", "/", "s", "/", "q", ".", "m", "p", "3">>
URL_w == <<"h", "/", "s", "/", "w", ".", "O", "G", "G">>

\* A repository as the listing service serves it.  "x" is an entry whose
\* path is not the listed directory's path plus its name; "m" is a submodule
\* (neither "dir" nor "file"); "s/b" is a directory listed as empty.
RemotePaths == { <<>>, <<"s">>, <<"s", "/", "b">> }

RemoteListing(path) ==
    CASE path = <<>> ->
            << Entry(<<"s">>, "dir", <<"s">>, <<>>),
               Entry(<<"r", ".", "m", "d">>, "file", <<"r", ".", "m", "d">>, URL_readme),
               Entry(<<"x">>, "dir", <<"s", "/", "b">>, <<>>),
               Entry(<<"m">>, "submodule", <<"m">>, <<>>) >>
      [] path = <<"s">> ->
            << Entry(<<"b">>, "dir", <<"s", "/", "b">>, <<>>),
               Entry(<<"q", ".", "m", "p", "3">>, "file",
                     <<"s", "/", "q", ".", "m", "p", "3">>, URL_q),
               Entry(<<"w", ".", "O", "G", "G">>, "file",
                     <<"s", "/", "w", ".", "O", "G", "G">>, URL_w) >>
      [] OTHER -> <<>>

\* Texts the user types into the entries while the program runs: the
\* metadata as <<title, author, description, tags>> (the entries start empty),
\* and the URL.
TypedForms == { << <<>>, <<"A">>, <<>>, <<"t">> >> }
TypedUrls == { <<>>, URL_q }

\* Filled-in forms: blank, padded (also with a tab, a carriage return, a form
\* feed, a no-break space), containing ": ", containing a line break,
\* containing a character of two bytes ("<U+00E9>", e with acute accent).
FormTitles == { <<>>, <<" ">>, <<" ", "<U+00E9>", "\t">>, <<"a", ":", " ", "b">> }
FormAuthors == { <<>>, <<" ", "<U+00A0>">>, <<"A">>, <<"x", ":", " ", "y">> }
FormDescriptions ==
    { <<" ">>, <<"k", ":", " ", "v", " ">>, <<"d", "\n", "e">> }
FormTags == { <<>>, <<"\n", "\f">>, <<"t", ",", " ", "u">> }
FormUrls ==
    { <<>>, <<" ">>,
      <<"u", ".", "m", "p", "3">>, <<"u", ".", "w", "a", "v">>,
      <<"u", ".", "f", "l", "a", "c">>,
      <<"u", ".", "M", "P", "3">>, <<"u">>, <<"u", "m", "p", "3">>,
      <<"u", ".", "m", "p">>, <<"u", ".", "m", "p", "3", "x">>,
      <<"u", ".", "m", "p", "3", "/">>, <<".", "m", "p", "3">>,
      <<" ", "u", ".", "o", "g", "g", "\r", "\n">> }

\* The end-to-end example of the specification.
QuorkTitle == <<"Q", "u", "o", "r", "k">>
QuorkAuthor == <<"M", "y", "I", "n", "s", "t", "a", "n", "t", "s">>
QuorkDescription ==
    <<"A", " ", "f", "u", "n", "n", "y", " ", "q", "u", "a", "c", "k", " ",
      "s", "o", "u", "n", "d">>
QuorkTags ==
    <<"d", "u", "c", "k", ",", "f", "u", "n", "n", "y", ",", "q", "u", "a",
      "c", "k">>
QuorkUrl ==
    <<"h", "t", "t", "p", "s", ":", "/", "/", "e", "x", "a", "m", "p", "l",
      "e", ".", "c", "o", "m", "/", "c", "a", "n", "n", "a", "r", "d", ".",
      "m", "p", "3">>

----------------------------------------------------------------------------
(* The handlers.                                                           *)

\* History record of a handler run; each handler fills in what applies.
\*   sel      the listbox's curselection() (select_item)
\*   kind     the branch select_item took
\*   io       what the collaborator did (a FetchResults or WriteResults value)
\*   draw, filename, existed
\*            the random value, the name save_keyclsound wrote to, and
\*            whether a file of that name was there before the write
\*   from     current_path before select_item ran
Hist(op) ==
    [op |-> op, sel |-> <<>>, kind |-> "none", io |-> "none", draw |-> 0,
     filename |-> <<>>, existed |-> FALSE, from |-> <<>>]

\* The row prefixes of load_repo; each emoji is one character.
PREFIX_DIR == <<"<folder>", " ">>
PREFIX_AUDIO == <<"<note>", " ">>
PREFIX_OTHER == <<"<page>", " ">>
UP_ROW == <<"[", ".", ".", "]">>

\* The row load_repo inserts for one entry of the listing.
row_label(item) ==
    (IF item.type = "dir" THEN PREFIX_DIR
     ELSE IF item.type = "file" /\ endswith_audio(item.name) THEN PREFIX_AUDIO
     ELSE PREFIX_OTHER) \o item.name

\* The rows of the listbox after load_repo(path) fetched listing.
listbox_rows(path, listing) ==
    (IF path # <<>> THEN <<UP_ROW>> ELSE <<>>)
        \o [i \in 1..Len(listing) |-> row_label(listing[i])]

\* load_repo(path): sets current_path, fetches, refills the listbox and binds
\* the fetched listing to the selection event.
load_repo(path, resp) ==
    LET listing == fetch_repo_contents(RemoteListing(path), resp) IN
    /\ resp = "status_200" => path \in RemotePaths
    /\ current_path' = path
    /\ items' = listing
    /\ files_listbox' = listbox_rows(path, listing)

\* "[..]" leading to the root from anywhere.
parent_path_root(path) == <<>>

\* parent = "/".join(current_path.split("/")[:-1])
parent_path(path) ==
    LET parts == split(path, "/") IN join(SubSeq(parts, 1, Len(parts) - 1), "/")

\* items[k] for a Python index k: in range from -len to len - 1.
index_in_range(seq, k) == -Len(seq) <= k /\ k < Len(seq)
getitem(seq, k) == IF k >= 0 THEN seq[k + 1] ELSE seq[Len(seq) + k + 1]

\* The row index used as it is, the "[..]" row not discounted.
item_index_noshift(path, idx) == idx

\* The index select_item uses into items for listbox row idx.
item_index(path, idx) == IF path = <<>> THEN idx ELSE idx - 1

\* The "Load Repo Root" button: load_repo("").
load_repo_root(resp) ==
    /\ load_repo(<<>>, resp)
    /\ outcome' = "none"
    /\ last' = [Hist("load_repo_root") EXCEPT !.io = resp]
    /\ UNCHANGED <<formVars, manual_url_entry, selected_url, files, nSaveCalls>>

\* select_item(items), run on <<ListboxSelect>> with the listing load_repo
\* bound.  selection is curselection(): empty or one row index.
select_item(selection, resp) ==
    LET idx == selection[1]
        k == item_index(current_path, idx)
        h == [Hist("select_item") EXCEPT !.sel = selection, !.from = current_path]
    IN
    /\ UNCHANGED <<formVars, files, nSaveCalls>>
    /\ IF selection = <<>> THEN
          /\ outcome' = "none"
          /\ last' = [h EXCEPT !.kind = "empty"]
          /\ UNCHANGED <<browserVars, manual_url_entry, selected_url>>
       ELSE IF current_path # <<>> /\ idx = 0 THEN
          /\ load_repo(parent_path(current_path), resp)
          /\ outcome' = "none"
          /\ last' = [h EXCEPT !.kind = "up", !.io = resp]
          /\ UNCHANGED <<manual_url_entry, selected_url>>
       ELSE IF ~index_in_range(items, k) THEN
          \* IndexError leaves the handler; Tk prints the traceback
          /\ outcome' = "traceback"
          /\ last' = [h EXCEPT !.kind = "index_error"]
          /\ UNCHANGED <<browserVars, manual_url_entry, selected_url>>
       ELSE LET item == getitem(items, k) IN
          IF item.type = "dir" THEN
             /\ load_repo(item.path, resp)
             /\ outcome' = "none"
             /\ last' = [h EXCEPT !.kind = "dir", !.io = resp]
             /\ UNCHANGED <<manual_url_entry, selected_url>>
          ELSE IF item.type = "file" THEN
             IF endswith_audio(item.name) THEN
                /\ selected_url' = item.download_url
                /\ manual_url_entry' = item.download_url
                /\ outcome' = "none"
                /\ last' = [h EXCEPT !.kind = "audio"]
                /\ UNCHANGED browserVars
             ELSE
                /\ outcome' = "showinfo_only_audio"
                /\ last' = [h EXCEPT !.kind = "other_file"]
                /\ UNCHANGED <<browserVars, manual_url_entry, selected_url>>
          ELSE
             /\ outcome' = "none"
             /\ last' = [h EXCEPT !.kind = "other_type"]
             /\ UNCHANGED <<browserVars, manual_url_entry, selected_url>>

\* generate_file(), the "Generate .keyclsound" button.  n is the value
\* random.randint returns inside save_keyclsound, w what the file system
\* does on the write and k the characters a failing write lets through; they
\* matter only when the validation passes.
generate_file(n, w, k) ==
    LET final_url == strip(manual_url_entry)
        verdict == validation(author_entry, tags_entry, final_url)
        data == build_data(title_entry, author_entry, desc_entry, tags_entry,
                           final_url)
        filename == generate_random_filename(n)
    IN
    /\ UNCHANGED <<formVars, browserVars, manual_url_entry, selected_url>>
    /\ IF verdict = "required" THEN
          /\ outcome' = "showerror_required"
          /\ last' = Hist("generate_file")
          /\ UNCHANGED <<files, nSaveCalls>>
       ELSE IF verdict = "extension" THEN
          /\ outcome' = "showerror_extension"
          /\ last' = Hist("generate_file")
          /\ UNCHANGED <<files, nSaveCalls>>
       ELSE
          \* save_keyclsound(data)
          /\ nSaveCalls < MaxGenerations
          /\ nSaveCalls' = nSaveCalls + 1
          /\ files' = write_file(files, filename, data, w, k)
          /\ last' = [Hist("generate_file") EXCEPT
                         !.io = w, !.draw = n, !.filename = filename,
                         !.existed = (filename \in DOMAIN files)]
          \* an OSError leaves the handler before showinfo; Tk prints it
          /\ outcome' = IF w = "ok" THEN "showinfo_saved" ELSE "traceback"

\* A name NamedTemporaryFile(suffix=...) draws: "tmp", eight characters of
\* a-z, 0-9 and "_", the suffix (i tells the names of TempDraws apart).
temp_name(i, suffix) ==
    <<"t", "m", "p", "a", "a", "a", "a", "a", "a", "a", DIGITS[i + 1]>> \o suffix

\* The directory of temporary files after tmpfile is created, written and
\* closed: p = "tempfile_raised" leaves no file, a failing write the prefix
\* that reached the file, the other cases the whole content.
temp_file(dir, name, content, p, k) ==
    IF p = "tempfile_raised" THEN dir
    ELSE [f \in (DOMAIN dir) \cup {name} |->
             IF f = name
             THEN (IF p = "write_raised" THEN written_prefix(content, k) ELSE content)
             ELSE dir[f]]

\* preview_sound(), the "Preview Sound" button.  resp is what
\* requests.get(final_url) does; after a 200, p is how the rest of the try
\* block goes, tmpdir where the temporary file is made and i the name drawn
\* for it, one that is not in that directory (of the names of TempDraws, which
\* nothing tells apart but their number, the first that is free).
preview_sound(resp, p, tmpdir, i, k) ==
    LET final_url == strip(manual_url_entry)
        ext == getitem(split(final_url, "."), -1)
        name == temp_name(i, <<".">> \o ext)
        h == [Hist("preview_sound") EXCEPT !.io = resp]
    IN
    /\ UNCHANGED <<formVars, browserVars, manual_url_entry, selected_url,
                   nSaveCalls>>
    /\ IF ~endswith_audio(final_url) THEN
          /\ outcome' = "showerror_preview_invalid"
          /\ last' = Hist("preview_sound")
          /\ UNCHANGED files
       ELSE IF resp = "raised" THEN
          /\ outcome' = "showerror_preview_failed"
          /\ last' = h
          /\ UNCHANGED files
       ELSE IF resp = "status_other" THEN
          /\ outcome' = "showerror_download_failed"
          /\ last' = h
          /\ UNCHANGED files
       ELSE
          /\ outcome' = IF p = "played" THEN "none" ELSE "showerror_preview_failed"
          /\ last' = h
          /\ IF tmpdir = "working_directory"
             THEN /\ name \notin DOMAIN files
                  /\ \A j \in 1..(i - 1) :
                        temp_name(j, <<".">> \o ext) \in DOMAIN files
                  /\ files' = temp_file(files, name, SOUND_BYTES, p, k)
             ELSE UNCHANGED files

\* stop_preview(), the "Stop Preview" button: pygame.mixer.music.stop().
stop_preview ==
    /\ outcome' = "none"
    /\ last' = Hist("stop_preview")
    /\ UNCHANGED <<formVars, browserVars, manual_url_entry, selected_url, files,
                   nSaveCalls>>

\* The user fills in the four metadata entries.
fill_form(form) ==
    /\ title_entry' = form[1] /\ author_entry' = form[2]
    /\ desc_entry' = form[3] /\ tags_entry' = form[4]
    /\ outcome' = "none" /\ last' = Hist("type")
    /\ UNCHANGED <<manual_url_entry, selected_url, browserVars, files,
                   nSaveCalls>>

\* The user edits the manual URL entry.
type_manual_url(text) ==
    /\ manual_url_entry' = text
    /\ outcome' = "none" /\ last' = Hist("type")
    /\ UNCHANGED <<formVars, selected_url, browserVars, files, nSaveCalls>>

----------------------------------------------------------------------------
(* The program: the window after the start-up load_repo(""), then the      *)
(* handlers in any order.                                                  *)

\* The state at root.mainloop(): empty entries, the start-up listing.
Startup(resp, dir) ==
    LET listing == fetch_repo_contents(RemoteListing(<<>>), resp) IN
    /\ selected_url = <<>>
    /\ current_path = <<>>
    /\ items = listing
    /\ files_listbox = listbox_rows(<<>>, listing)
    /\ files = dir
    /\ outcome = "none"
    /\ nSaveCalls = 0
    /\ last = [Hist("startup") EXCEPT !.io = resp]

Init ==
    /\ title_entry = <<>> /\ author_entry = <<>> /\ desc_entry = <<>>
    /\ tags_entry = <<>> /\ manual_url_entry = <<>>
    /\ \E resp \in FetchResults : Startup(resp, <<>>)

\* The runs of preview_sound explored, as <<resp, p, tmpdir, i, k>>: p and
\* tmpdir count after a 200 only, the name drawn and the bytes a failing
\* write lets through (any number up to all) in the working directory only.
PreviewRuns ==
    { run \in FetchResults \X PreviewResults \X TempDirs \X TempDraws
                \X (0..Len(SOUND_BYTES)) :
          /\ run[1] # "status_200" => run[2] = "played" /\ run[3] = "elsewhere"
          /\ run[3] = "elsewhere" => run[4] = 1
          /\ (run[3] = "elsewhere" \/ run[2] # "write_raised") => run[5] = 0 }

\* The draws the full program is explored with: the two ends of the range.
EndDraws == { n \in RandomDraws : n = RandLo \/ n = RandHi }

Next ==
    \/ \E form \in TypedForms : fill_form(form)
    \/ \E text \in TypedUrls : type_manual_url(text)
    \/ \E resp \in FetchResults : load_repo_root(resp)
    \/ \E selection \in {<<>>} \cup { <<i>> : i \in 0..(Len(files_listbox) - 1) },
          resp \in FetchResults : select_item(selection, resp)
    \/ \E n \in EndDraws, w \in WriteResults :
          \E k \in counts_for(w) : generate_file(n, w, k)
    \/ \E run \in PreviewRuns :
          preview_sound(run[1], run[2], run[3], run[4], run[5])
    \/ stop_preview

Spec == Init /\ [][Next]_vars

\* The encoding the specification gives for the example.
QuorkText ==
    <<"t", "i", "t", "l", "e", ":", " ", "Q", "u", "o", "r", "k", "\n", "a",
      "u", "t", "h", "o", "r", ":", " ", "M", "y", "I", "n", "s", "t", "a",
      "n", "t", "s", "\n", "d", "e", "s", "c", "r", "i", "p", "t", "i", "o",
      "n", ":", " ", "A", " ", "f", "u", "n", "n", "y", " ", "q", "u", "a",
      "c", "k", " ", "s", "o", "u", "n", "d", "\n", "t", "a", "g", "s", ":",
      " ", "d", "u", "c", "k", ",", "f", "u", "n", "n", "y", ",", "q", "u",
      "a", "c", "k", "\n", "u", "r", "l", ":", " ", "h", "t", "t", "p", "s",
      ":", "/", "/", "e", "x", "a", "m", "p", "l", "e", ".", "c", "o", "m",
      "/", "c", "a", "n", "n", "a", "r", "d", ".", "m", "p", "3", "\n">>

\* The working directory at start: empty, or holding a file of an earlier run
\* under a name the generator can draw (a file is the sequence of its bytes).
OLD_TEXT == <<"o", "l", "d", "\n">>
StartDirectories ==
    { <<>>, [f \in {generate_random_filename(RandLo)} |-> OLD_TEXT] }

\* The generator applied to filled-in forms: any form of the input sets, or
\* the example of the specification, then "Generate" pressed repeatedly.
InitForm ==
    /\ \/ /\ title_entry \in FormTitles /\ author_entry \in FormAuthors
          /\ desc_entry \in FormDescriptions /\ tags_entry \in FormTags
          /\ manual_url_entry \in FormUrls
       \/ /\ title_entry = QuorkTitle /\ author_entry = QuorkAuthor
          /\ desc_entry = QuorkDescription /\ tags_entry = QuorkTags
          /\ manual_url_entry = QuorkUrl
    /\ \E dir \in StartDirectories : Startup("status_200", dir)

NextForm ==
    \E n \in RandomDraws, w \in WriteResults :
        \E k \in counts_for(w) : generate_file(n, w, k)

SpecForm == InitForm /\ [][NextForm]_vars

----------------------------------------------------------------------------
(* The decoder of the descriptor format (specification 4.1, decode): the   *)
(* text is split into lines, each line at its first ": " into key and      *)
(* value; a line without ": " or a missing key is a parse error; unknown   *)
(* keys are ignored.                                                       *)

\* The lines of a text, each without its terminating "\n".
text_lines(text) ==
    LET parts == split(text, "\n") IN
    IF parts[Len(parts)] = <<>> THEN SubSeq(parts, 1, Len(parts) - 1) ELSE parts

\* A line split at its first ": ".
split_key_value(line) ==
    LET at == { i \in 1..(Len(line) - 1) : line[i] = ":" /\ line[i + 1] = " " } IN
    IF at = {} THEN [ok |-> FALSE, key |-> <<>>, value |-> <<>>]
    ELSE LET i == CHOOSE k \in at : \A j \in at : k <= j IN
         [ok |-> TRUE, key |-> SubSeq(line, 1, i - 1),
          value |-> SubSeq(line, i + 2, Len(line))]

PARSE_ERROR ==
    [ok |-> FALSE, title |-> <<>>, author |-> <<>>, description |-> <<>>,
     tags |-> <<>>, url |-> <<>>]

decode(text) ==
    LET ls == text_lines(text)
        kv == [i \in 1..Len(ls) |-> split_key_value(ls[i])]
        has(key) == \E i \in 1..Len(kv) : kv[i].key = key
        get(key) == kv[CHOOSE i \in 1..Len(kv) :
                          kv[i].key = key /\ \A j \in 1..(i - 1) : kv[j].key # key].value
        keys == << <<"t", "i", "t", "l", "e">>, <<"a", "u", "t", "h", "o", "r">>,
                   <<"d", "e", "s", "c", "r", "i", "p", "t", "i", "o", "n">>,
                   <<"t", "a", "g", "s">>, <<"u", "r", "l">> >>
    IN
    IF (\E i \in 1..Len(kv) : ~kv[i].ok) \/ (\E n \in 1..5 : ~has(keys[n]))
    THEN PARSE_ERROR
    ELSE [ok |-> TRUE, title |-> get(keys[1]), author |-> get(keys[2]),
          description |-> get(keys[3]), tags |-> get(keys[4]),
          url |-> get(keys[5])]

----------------------------------------------------------------------------
(* Vocabulary of the properties, stated without the program's operators.   *)

\* White space: the ASCII separators and controls, and Unicode's spaces.
Spaces ==
    {" ", "\t", "\n", "\r", "\f", "<U+000B>"}
        \cup {"<U+001C>", "<U+001D>", "<U+001E>", "<U+001F>", "<U+0085>"}
        \cup {"<U+00A0>", "<U+1680>", "<U+2028>", "<U+2029>", "<U+202F>",
              "<U+205F>", "<U+3000>"}
        \cup {"<U+2000>", "<U+2001>", "<U+2002>", "<U+2003>", "<U+2004>",
              "<U+2005>", "<U+2006>", "<U+2007>", "<U+2008>", "<U+2009>",
              "<U+200A>"}

\* A text is blank: empty or only white space.
Blank(s) == \A i \in 1..Len(s) : s[i] \in Spaces

\* The text without its leading and trailing whitespace.
Trimmed(s) ==
    IF Blank(s) THEN <<>>
    ELSE LET a == CHOOSE i \in 1..Len(s) :
                      ~Blank(<<s[i]>>) /\ \A j \in 1..(i - 1) : Blank(<<s[j]>>)
             b == CHOOSE i \in 1..Len(s) :
                      ~Blank(<<s[i]>>) /\ \A j \in (i + 1)..Len(s) : Blank(<<s[j]>>)
         IN  SubSeq(s, a, b)

\* The text ends, case-sensitively, in .mp3, .wav or .ogg.
HasAudioSuffix(s) ==
    /\ Len(s) >= 4
    /\ s[Len(s) - 3] = "."
    /\ <<s[Len(s) - 2], s[Len(s) - 1], s[Len(s)]>>
          \in { <<"m", "p", "3">>, <<"w", "a", "v">>, <<"o", "g", "g">> }

HasLineBreak(s) == \E i \in 1..Len(s) : s[i] = "\n"

\* text starts with prefix
StartsWith(text, prefix) ==
    Len(prefix) <= Len(text) /\ SubSeq(text, 1, Len(prefix)) = prefix

\* The entries as the generate button finds them.
RequiredPresent ==
    ~Blank(author_entry) /\ ~Blank(tags_entry) /\ ~Blank(manual_url_entry)

ValidForm == RequiredPresent /\ HasAudioSuffix(Trimmed(manual_url_entry))

\* The normalized descriptor of the form: title defaulted, values trimmed.
ExpectedTitle ==
    IF Blank(title_entry) THEN <<"U", "n", "t", "i", "t", "l", "e", "d", " ", "S", "o", "n", "g">>
    ELSE Trimmed(title_entry)

SingleLineValues ==
    \A s \in {title_entry, author_entry, desc_entry, tags_entry, manual_url_entry} :
        ~HasLineBreak(Trimmed(s))

ValidationErrors == {"showerror_required", "showerror_extension"}

GenerateRan == last.op = "generate_file"
Saved == GenerateRan /\ outcome = "showinfo_saved"

----------------------------------------------------------------------------
(* Properties of the generator, checked under SpecForm.                    *)

\* What a step of generate_file on a form lacking a required value does.
C1_Step ==
    (last'.op = "generate_file" /\ ~RequiredPresent)
        => /\ outcome' = "showerror_required"
           /\ files' = files
           /\ nSaveCalls' = nSaveCalls

\* C1: whenever generate_file runs on a form whose author, tags or url is
\* blank, it ends in the "required" validation error and the working
\* directory is as before the call: no file created, none modified, and
\* save_keyclsound is not called.
C1_BlankRequiredFieldRejected == [][C1_Step]_vars

\* An author of a space and a no-break space alone was rejected, with the
\* earlier run's file still there.
C1_Witness ==
    /\ GenerateRan /\ outcome = "showerror_required"
    /\ author_entry = <<" ", "<U+00A0>">> /\ ~Blank(tags_entry)
    /\ HasAudioSuffix(Trimmed(manual_url_entry))
    /\ DOMAIN files # {}

\* What a step of generate_file does, by the url's suffix.
C2_Step ==
    last'.op = "generate_file"
        => /\ ~HasAudioSuffix(Trimmed(manual_url_entry))
                => /\ outcome' \in ValidationErrors
                   /\ files' = files
                   /\ nSaveCalls' = nSaveCalls
           /\ (RequiredPresent /\ ~HasAudioSuffix(Trimmed(manual_url_entry)))
                => outcome' = "showerror_extension"
           /\ ValidForm
                => /\ outcome' \notin ValidationErrors
                   /\ nSaveCalls' = nSaveCalls + 1
                   /\ last'.filename \in DOMAIN files' \/ last'.io = "open_raised"

\* C2: whenever generate_file runs on a form whose trimmed url does not end,
\* case-sensitively, in .mp3, .wav or .ogg, it ends in a validation error and
\* writes no file; and whenever it runs on a form with non-blank author, tags
\* and url whose url has one of the three suffixes, no validation error is
\* shown and save_keyclsound is called exactly once.
C2_UrlSuffixDecidesValidation == [][C2_Step]_vars

\* A url ending in .MP3 was rejected for its suffix.
C2_Witness ==
    /\ GenerateRan /\ outcome = "showerror_extension"
    /\ manual_url_entry = <<"u", ".", "M", "P", "3">>
    /\ nSaveCalls = 0

\* The text a reader of UTF-8 finds in bytes; bytes that are no complete
\* character are left as they are.
LeadBytes == { row[2][1] : row \in UTF8_TABLE }

RECURSIVE Utf8Text(_)
Utf8Text(bytes) ==
    IF \A i \in 1..Len(bytes) : bytes[i] \notin LeadBytes THEN bytes
    ELSE LET i == CHOOSE k \in 1..Len(bytes) :
                      bytes[k] \in LeadBytes
                      /\ \A j \in 1..(k - 1) : bytes[j] \notin LeadBytes
             rest == SubSeq(bytes, i, Len(bytes))
             rows == { r \in UTF8_TABLE : StartsWith(rest, r[2]) }
         IN  IF rows = {}
             THEN SubSeq(bytes, 1, i) \o Utf8Text(SubSeq(bytes, i + 1, Len(bytes)))
             ELSE LET row == CHOOSE r \in rows : TRUE IN
                  SubSeq(bytes, 1, i - 1) \o <<row[1]>>
                      \o Utf8Text(SubSeq(rest, Len(row[2]) + 1, Len(rest)))

\* The text in the file the last generation wrote.
WrittenText == Utf8Text(files[last.filename])

\* C4: decode is a left inverse of the encoding generate_file writes: for a
\* valid form whose trimmed values hold no line break, decoding the written
\* text gives the normalized descriptor of the form: the defaulted title and
\* the trimmed author, description, tags and url.
C4_DecodeInvertsEncode ==
    (Saved /\ SingleLineValues)
        => decode(WrittenText) =
              [ok |-> TRUE, title |-> ExpectedTitle,
               author |-> Trimmed(author_entry),
               description |-> Trimmed(desc_entry),
               tags |-> Trimmed(tags_entry),
               url |-> Trimmed(manual_url_entry)]

\* A descriptor whose title and description contain ": " was written, from a
\* url padded with a space, a carriage return and a newline.
C4_Witness ==
    /\ Saved /\ SingleLineValues
    /\ title_entry = <<"a", ":", " ", "b">>
    /\ desc_entry = <<"k", ":", " ", "v", " ">>
    /\ author_entry = <<"x", ":", " ", "y">>
    /\ manual_url_entry = <<" ", "u", ".", "o", "g", "g", "\r", "\n">>
    /\ decode(WrittenText).url = <<"u", ".", "o", "g", "g">>
    /\ decode(WrittenText).ok

\* The five keys in file order.
KeyOrder ==
    << <<"t", "i", "t", "l", "e">>, <<"a", "u", "t", "h", "o", "r">>,
       <<"d", "e", "s", "c", "r", "i", "p", "t", "i", "o", "n">>,
       <<"t", "a", "g", "s">>, <<"u", "r", "l">> >>

\* The values of the normalized descriptor of the form, in file order.
DescriptorValues ==
    << ExpectedTitle, Trimmed(author_entry), Trimmed(desc_entry),
       Trimmed(tags_entry), Trimmed(manual_url_entry) >>

\* The n-th "key: value" pair of the normalized descriptor.
DescriptorPair(n) == KeyOrder[n] \o <<":", " ">> \o DescriptorValues[n]

\* The five pairs, each followed by a newline, one after the other.
DescriptorText ==
    DescriptorPair(1) \o <<"\n">> \o DescriptorPair(2) \o <<"\n">>
        \o DescriptorPair(3) \o <<"\n">> \o DescriptorPair(4) \o <<"\n">>
        \o DescriptorPair(5) \o <<"\n">>

\* How many newlines a text holds.
NewlineCount(s) == Cardinality({ i \in 1..Len(s) : s[i] = "\n" })

\* The written text is exactly five lines, each ending in a newline and none
\* blank, line n being the n-th key, then ": ", then that field's value.
FiveLines(text) ==
    LET ls == text_lines(text) IN
    /\ text[Len(text)] = "\n"
    /\ Len(ls) = 5
    /\ \A n \in 1..5 : ls[n] = DescriptorPair(n)
    /\ \A n \in 1..5 : ls[n] # <<>>
    /\ NewlineCount(text) = 5

\* Every descriptor file in the directory holds the text of the last one, or
\* the part of it a failed write let through, whatever name was drawn for it
\* (the file of an earlier run aside).
SameTextEveryDraw ==
    \A f \in DOMAIN files :
        StartsWith(files[last.filename], files[f]) \/ files[f] = OLD_TEXT

C6_TitleDefaulted ==
    /\ Saved =>
          LET text == WrittenText IN
          /\ StartsWith(text, <<"t", "i", "t", "l", "e", ":", " ">> \o ExpectedTitle \o <<"\n">>)
          /\ Blank(title_entry) =>
                StartsWith(text,
                    <<"t", "i", "t", "l", "e", ":", " ", "U", "n", "t", "i", "t", "l", "e",
                          "d", " ", "S", "o", "n", "g", "\n", "a", "u", "t", "h", "o", "r", ":",
                          " ">>)
          /\ Blank(desc_entry) =>
                \E i \in 1..Len(text) :
                    SubSeq(text, i, i + 14) =
                        <<"\n", "d", "e", "s", "c", "r", "i", "p", "t", "i", "o", "n", ":", " ",
                          "\n">>
    /\ (GenerateRan /\ outcome \in ValidationErrors) => ~ValidForm
    /\ (GenerateRan /\ ValidForm) => outcome \notin ValidationErrors

\* A form with blank title and blank description was saved.
C6_Witness ==
    /\ Saved
    /\ title_entry = <<" ">> /\ desc_entry = <<" ">>
    /\ StartsWith(WrittenText, <<"t", "i", "t", "l", "e", ":", " ", "U", "n", "t", "i", "t", "l", "e",
                          "d", " ", "S", "o", "n", "g", "\n">>)

\* A name of eight decimal digits followed by ".keyclsound".
EightDigitName(name) ==
    /\ Len(name) = 19
    /\ \A i \in 1..8 : name[i] \in {"0", "1", "2", "3", "4", "5", "6", "7", "8", "9"}
    /\ SubSeq(name, 9, 19) = <<".", "k", "e", "y", "c", "l", "s", "o", "u", "n", "d">>

\* The number a decimal digit stands for, and the number the first eight
\* characters of a name spell.
DigitValue(c) ==
    CHOOSE d \in 0..9 : <<"0", "1", "2", "3", "4", "5", "6", "7", "8", "9">>[d + 1] = c

NameNumber(name) ==
    10000000 * DigitValue(name[1]) + 1000000 * DigitValue(name[2])
        + 100000 * DigitValue(name[3]) + 10000 * DigitValue(name[4])
        + 1000 * DigitValue(name[5]) + 100 * DigitValue(name[6])
        + 10 * DigitValue(name[7]) + DigitValue(name[8])

\* C7: every name save_keyclsound writes to is eight decimal digits followed
\* by ".keyclsound", the digits spelling the number drawn, which is within
\* 10000000..99999999; and the name depends on the draw alone: a draw is
\* written to whether or not a file of that name is already there, and when
\* the file system accepts the write the file holds the new text.
C7_EightDigitFilename ==
    /\ (GenerateRan /\ last.io # "none")
          => /\ EightDigitName(last.filename)
             /\ 10000000 <= last.draw /\ last.draw <= 99999999
             /\ NameNumber(last.filename) = last.draw
             /\ last.io = "ok"
                   => /\ outcome = "showinfo_saved"
                      /\ last.filename \in DOMAIN files
                      /\ files[last.filename] # OLD_TEXT
    /\ \A f \in DOMAIN files : EightDigitName(f)

\* The name drawn was that of a file already there, and it was written to.
C7_Witness ==
    /\ Saved /\ last.existed
    /\ last.draw = 10000000
    /\ last.filename = <<"1", "0", "0", "0", "0", "0", "0", "0", ".", "k", "e", "y", "c", "l",
                          "s", "o", "u", "n", "d">>

----------------------------------------------------------------------------
(* Properties of the whole program, checked under Spec.                    *)

\* What a step of generate_file that reports "Saved as ..." does to the files.
C3_Step ==
    (last'.op = "generate_file" /\ outcome' = "showinfo_saved")
        => /\ last'.filename \notin DOMAIN files
           /\ \A f \in DOMAIN files : f \in DOMAIN files' /\ files'[f] = files[f]
           /\ Cardinality(DOMAIN files') = Cardinality(DOMAIN files) + 1

\* C3: every generation that ends in "Saved as ..." has created exactly one
\* new file and has left every file that existed before it as it was, so each
\* successful generation adds one to the number of descriptor files.
C3_EachGenerationOneNewFile == [][C3_Step]_vars

FailedFetch == {"status_other", "raised"}
FailedWrite == {"open_raised", "write_raised"}

\* The handlers that fetch a listing.
ListingFetched == last.op \in {"startup", "load_repo_root", "select_item"}

\* What preview_sound shows when its download or its playing fails.
PreviewErrors == {"showerror_download_failed", "showerror_preview_failed"}

\* What load_repo leaves for its caller and the user to see.
BrowserView == <<outcome, items, files_listbox>>

\* What a successful fetch of an empty directory at current_path leaves.
EmptyDirectoryView ==
    <<"none", <<>>, IF current_path = <<>> THEN <<>> ELSE << <<"[", ".", ".", "]">> >> >>

\* C8 as stated: a failed fetch and a failed write each surface as an error
\* of their own kind: not as a validation error, not as a success, and for
\* the fetch not as what an empty directory shows.
C8_IOFailureSurfaced ==
    /\ last.io \in FailedWrite
          => outcome \notin ValidationErrors \cup {"showinfo_saved", "none"}
    /\ (ListingFetched /\ last.io \in FailedFetch)
          => /\ outcome \notin ValidationErrors \cup {"showinfo_saved", "none"}
             /\ BrowserView # EmptyDirectoryView

\* C8 as the program has it: a failed write leaves generate_file as an
\* exception, which is neither a validation error nor "Saved" nor silence;
\* a failed listing fetch, by status or by exception, is not surfaced: the
\* browser shows exactly what a successful fetch of an empty directory shows,
\* and a successful fetch of an empty directory shows that too; a failed
\* download in preview_sound is shown in an error dialog of its own.
C8_WriteFailureRaisedFetchFailureSilent ==
    /\ last.io \in FailedWrite
          => /\ outcome = "traceback"
             /\ outcome \notin ValidationErrors \cup {"showinfo_saved", "none"}
    /\ (GenerateRan /\ outcome = "showinfo_saved") => last.io = "ok"
    /\ (ListingFetched /\ last.io \in FailedFetch)
          => BrowserView = EmptyDirectoryView
    /\ (ListingFetched /\ last.io = "status_200"
        /\ RemoteListing(current_path) = <<>>)
          => BrowserView = EmptyDirectoryView
    /\ (ListingFetched /\ last.io = "status_200"
        /\ RemoteListing(current_path) # <<>>)
          => BrowserView # EmptyDirectoryView
    /\ (last.op = "preview_sound" /\ last.io \in FailedFetch)
          => outcome \in PreviewErrors

\* The fetch of a non-empty directory failed, and the browser shows it empty.
C8_Witness ==
    /\ last.io = "raised" /\ last.kind = "dir"
    /\ current_path = <<"s">>
    /\ RemoteListing(current_path) # <<>>
    /\ BrowserView = EmptyDirectoryView

\* The path without its last "/"-separated segment.
WithoutLastSegment(path) ==
    LET slashes == { i \in 1..Len(path) : path[i] = "/" } IN
    IF slashes = {} THEN <<>>
    ELSE SubSeq(path, 1, (CHOOSE i \in slashes : \A j \in slashes : j <= i) - 1)

RECURSIVE UpTimes(_, _)
UpTimes(path, n) == IF n = 0 THEN path ELSE UpTimes(parent_path(path), n - 1)

\* The entry shown on listbox row i (rows counted from 0): the entry of the
\* bound listing whose name is the row's text after the two-character prefix.
ShownOnRow(i) ==
    { e \in { items[k] : k \in 1..Len(items) } :
          files_listbox[i + 1] # <<"[", ".", ".", "]">>
          /\ e.name = SubSeq(files_listbox[i + 1], 3, Len(files_listbox[i + 1])) }

\* The entry whose path is path is the directory dir's path plus its name.
PathIsDirPlusName(path, dir) ==
    \E k \in 1..Len(path) :
        /\ \A j \in k..Len(path) : path[j] # "/"
        /\ path = (IF dir = <<>> THEN <<>> ELSE dir \o <<"/">>) \o SubSeq(path, k, Len(path))

SelectRan(i) == last'.op = "select_item" /\ last'.sel = <<i>>

\* The listbox and current_path in every state; the steps of select_item.
C9_State ==
    /\ (files_listbox # <<>> /\ files_listbox[1] = <<"[", ".", ".", "]">>)
          <=> current_path # <<>>
    /\ \A i \in 2..Len(files_listbox) : files_listbox[i] # <<"[", ".", ".", "]">>
    /\ \E n \in 0..Len(current_path) : UpTimes(current_path, n) = <<>>

C9_Step ==
    /\ (SelectRan(0) /\ current_path # <<>>)
          => current_path' = WithoutLastSegment(current_path)
    /\ \A i \in 0..(Len(files_listbox) - 1) :
          (SelectRan(i) /\ ~(i = 0 /\ current_path # <<>>))
              => \A e \in ShownOnRow(i) :
                    e.type = "dir" => current_path' = e.path
    /\ (last.op = "select_item" /\ last.kind = "dir"
        /\ PathIsDirPlusName(current_path, last.from) /\ SelectRan(0))
          => current_path' = last.from

\* C9: the "[..]" row is row 0 exactly when current_path is not the root and
\* is no other row; selecting it sets current_path to current_path without
\* its last segment; selecting a row that shows a directory sets
\* current_path to that entry's path; when the directory entered has the
\* path of its listing plus its name, selecting "[..]" next returns
\* current_path to where it was; and from every current_path a number of
\* "[..]" selections no greater than its length leads to the root.
C9_UpRowAndParent == []C9_State /\ [][C9_Step]_vars

\* "[..]" was selected in s/b and led to s.
C9_Witness ==
    /\ last.op = "select_item" /\ last.sel = <<0>> /\ last.kind = "up"
    /\ last.from = <<"s", "/", "b">>
    /\ current_path = <<"s">>
    /\ files_listbox[1] = <<"[", ".", ".", "]">>

\* What a step of select_item does, by the row selected.
C10_Step ==
    last'.op = "select_item" =>
      /\ last'.kind # "index_error" /\ outcome' # "traceback"
      /\ last'.sel = <<>>
            => UNCHANGED <<selected_url, manual_url_entry, current_path>>
      /\ \A i \in 0..(Len(files_listbox) - 1) :
            (last'.sel = <<i>> /\ ~(i = 0 /\ current_path # <<>>))
                => LET k == IF current_path = <<>> THEN i + 1 ELSE i IN
                   /\ k \in 1..Len(items)
                   /\ ShownOnRow(i) = {items[k]}
                   /\ (items[k].type = "file" /\ HasAudioSuffix(items[k].name))
                         => /\ selected_url' = items[k].download_url
                            /\ manual_url_entry' = items[k].download_url
                            /\ current_path' = current_path
                   /\ (items[k].type = "file" /\ ~HasAudioSuffix(items[k].name))
                         => UNCHANGED <<selected_url, manual_url_entry, current_path>>

\* C10: select_item uses, for row i, the entry shown on that row (i at the
\* root, i - 1 below it) and never an index outside the listing; when that
\* entry is a file with an audio name, selected_url and the manual URL entry
\* become its download_url and current_path stays; when it is a file with
\* another name, or the selection is empty, the three stay as they were.
C10_RowMapsToShownEntry == [][C10_Step]_vars

\* Below the root, row 2 (q.mp3) was selected and filled the URL entry.
C10_Witness ==
    /\ last.op = "select_item" /\ last.sel = <<2>> /\ last.kind = "audio"
    /\ current_path = <<"s">>
    /\ selected_url = <<"h", "/", "s", "/", "q", ".", "m", "p", "3">>
    /\ manual_url_entry = selected_url

====
